---- MODULE Spec2Model ----
(***************************************************************************)
(* A model of gitupdater.py: one process that reads a configuration, is    *)
(* gated by the modification time of /var/tmp/gitupdater.lock, and then    *)
(* walks the configured sections, cloning or pulling each repository.      *)
(*                                                                         *)
(* Strings that the program parses (update_interval) are sequences of      *)
(* one-character strings.  The file system and the git tool are the        *)
(* environment: what a call observes (the kind of a path, the working      *)
(* tree, the outcome of a command) is drawn when the call is made and is   *)
(* written to the trace of the section being processed.                    *)
(*                                                                         *)
(* Every section has a path and a url, and its booleans are ones that      *)
(* getboolean accepts.  touch() and the mkdir of a path that does not      *)
(* exist succeed.  The clock does not go back.                             *)
(***************************************************************************)
EXTENDS Integers, Sequences, FiniteSets, TLC

VARIABLES
    args,        \* the parsed command line: dry_run, create, verbose
    config,      \* the parsed configuration (DEFAULT keys and the sections)
    marker,      \* LAST_UPDATE_FILE: whether it exists and its st_mtime
    now,         \* time.time(), in seconds
    pc,          \* "load_default", "loop" or "exited"
    idx,         \* how many sections process_section was called for
    exitStatus,  \* the exit status of the process, -1 while it runs
    elapsed,     \* the local of load_default, -1 while not computed
    trace,       \* what the last process_section call observed, ran and logged
    lastStart    \* start time of the last run without --create that passed
                 \* the interval check, -1 when there was none

vars == <<args, config, marker, now, pc, idx, exitStatus, elapsed, trace, lastStart>>

----------------------------------------------------------------------------
(* Bounds of the model *)

MaxLen == 3
MaxTime == 3
MaxSections == 2

----------------------------------------------------------------------------
(* parse_interval_sec *)

Digits == {"0", "1", "2", "3", "4", "5", "6", "7", "8", "9"}

DigitVal(c) ==
    CASE c = "0" -> 0 [] c = "1" -> 1 [] c = "2" -> 2 [] c = "3" -> 3
      [] c = "4" -> 4 [] c = "5" -> 5 [] c = "6" -> 6 [] c = "7" -> 7
      [] c = "8" -> 8 [] c = "9" -> 9

\* The dict `units`, in its iteration order.
Units ==
    << [suffix |-> "s", value |-> 1],
       [suffix |-> "m", value |-> 60],
       [suffix |-> "h", value |-> 3600],
       [suffix |-> "d", value |-> 86400] >>

\* str.endswith for a one-character suffix.
EndsWith(string, suffix) == Len(string) > 0 /\ string[Len(string)] = suffix

\* string.split(suffix)[0]: what precedes the first occurrence of suffix.
SplitFirst(string, suffix) ==
    LET first == CHOOSE i \in 1..Len(string) :
                    /\ string[i] = suffix
                    /\ \A j \in 1..(i - 1) : string[j] # suffix
    IN  SubSeq(string, 1, first - 1)

IsDigit(c) == c \in Digits

DotPositions(p) == {i \in 1..Len(p) : p[i] = "."}

\* Whether float(p) returns, for p over digits, "." and letters that no
\* float literal contains: digits with at most one point and at least one
\* digit.  Anything else raises ValueError.
FloatAccepts(p) ==
    /\ \A i \in 1..Len(p) : IsDigit(p[i]) \/ p[i] = "."
    /\ Cardinality(DotPositions(p)) <= 1
    /\ \E i \in 1..Len(p) : IsDigit(p[i])

RECURSIVE DigitsToNat(_)
DigitsToNat(d) ==
    IF d = <<>> THEN 0
    ELSE DigitsToNat(SubSeq(d, 1, Len(d) - 1)) * 10 + DigitVal(d[Len(d)])

RECURSIVE Pow10(_)
Pow10(k) == IF k = 0 THEN 1 ELSE 10 * Pow10(k - 1)

\* int(float(p) * value) for an accepted p: the product, truncated.
\* (Exact arithmetic; it agrees with the double arithmetic of the program on
\* every string of the alphabet below of up to four characters.)
IntOfProduct(p, value) ==
    LET dots == DotPositions(p)
        fracLen == IF dots = {} THEN 0 ELSE Len(p) - (CHOOSE i \in dots : TRUE)
    IN  (DigitsToNat(SelectSeq(p, IsDigit)) * value) \div Pow10(fracLen)

\* The loop over units.items(), from the k-th unit on.  The result is tagged:
\* "int" with the value returned, "none" when the loop ends without a return
\* (the function returns None), "ValueError" when float() raises.
RECURSIVE ParseFrom(_, _)
ParseFrom(string, k) ==
    IF k > Len(Units) THEN [tag |-> "none", val |-> 0]
    ELSE IF EndsWith(string, Units[k].suffix)
         THEN LET prefix == SplitFirst(string, Units[k].suffix)
              IN  IF FloatAccepts(prefix)
                  THEN [tag |-> "int", val |-> IntOfProduct(prefix, Units[k].value)]
                  ELSE [tag |-> "ValueError", val |-> 0]
         ELSE ParseFrom(string, k + 1)

parse_interval_sec(string) == ParseFrom(string, 1)

----------------------------------------------------------------------------
(* The configuration and the command line *)

Unset == <<"unset">>

\* The fallback of config["DEFAULT"].get("update_interval", "5m").
DefaultInterval == <<"5", "m">>

UpdateIntervalString ==
    IF config.update_interval = Unset THEN DefaultInterval
    ELSE config.update_interval

\* The characters update_interval values are drawn from.
Alphabet == {"1", "2", ".", "s", "m"}

Strings(n) == UNION {[1..k -> Alphabet] : k \in 0..n}

\* A section: auto_update as getboolean reads it, and the section's own
\* ignore_untracked_files key ("unset" when the section does not set it).
\* The path and the url of section i are those of its position.
SectionCfg == [auto_update : BOOLEAN, ignore_untracked_files : {"unset", "true", "false"}]

SectionLists(n) == UNION {[1..k -> SectionCfg] : k \in 0..n}

Args == [dry_run : BOOLEAN, create : BOOLEAN, verbose : BOOLEAN]

----------------------------------------------------------------------------
(* Events of the trace *)

Ev(t, what, sec, res) == [t |-> t, what |-> what, sec |-> sec, res |-> res]

\* logging.debug prints only under --verbose (setup_logging).
Debug(what, sec, res) == IF args.verbose THEN <<Ev("debug", what, sec, res)>> ELSE <<>>
Info(what, sec, res) == <<Ev("info", what, sec, res)>>
Warning(what, sec, res) == <<Ev("warning", what, sec, res)>>

\* A command that ran, with its trimmed output or "fail" for a non-zero exit.
Exec(what, sec, res) == <<Ev("exec", what, sec, res)>>

\* What the program found in its environment.
Observed(what, sec, res) == <<Ev("env", what, sec, res)>>

Fail == "fail"
None == "None"
UpToDate == "Already up to date."

----------------------------------------------------------------------------
(* The environment of one process_section call *)

\* What a path is on disk.  "repo" is a directory git recognises as a
\* repository (rev-parse exits 0); rev-parse exits non-zero for the others.
Kinds == {"missing", "file", "dir", "repo"}

\* The working tree: modified tracked files, untracked files, both, neither.
WorkTrees == {"clean", "tracked", "untracked", "both"}

\* The trimmed output of a pull that ran, or its failure.
PullResults == {Fail, UpToDate, "Updating 1a2b..3c4d"}

CloneResults == {Fail, ""}

\* What one process_section call can meet.  status and pull run only in a
\* repository and clone only elsewhere, so what is never asked is fixed.
Envs ==
    {e \in [kind : Kinds, wt : WorkTrees, status_ok : BOOLEAN,
            pull : PullResults, clone : CloneResults] :
        IF e.kind = "repo"
        THEN e.clone = ""
        ELSE e.wt = "clean" /\ e.status_ok /\ e.pull = UpToDate}

\* What `git status --porcelain` prints: a line per modified tracked file
\* and, unless --untracked-files=no is given, a line per untracked file.
StatusOutput(wt, untracked_no) ==
    LET tracked == wt \in {"tracked", "both"}
        untracked == wt \in {"untracked", "both"} /\ ~untracked_no
    IN  IF tracked /\ untracked THEN "M a ?? b"
        ELSE IF tracked THEN "M a"
        ELSE IF untracked THEN "?? b"
        ELSE ""

NoOutput == ""

----------------------------------------------------------------------------
(* GitUpdater: the commands.  Each operator returns the events of the call *)
(* (trace), whether it raised (raised) and, where the code uses it, the    *)
(* value returned (ret).                                                   *)

\* run_cmd without the dry-run test.
run_cmd_always(sec, cmd, is_safe, result) ==
    [trace |-> Debug("Running", sec, cmd) \o Exec(cmd, sec, result),
     raised |-> result = Fail,
     ret |-> result]

\* run_cmd with subprocess.run in place of check_output: no exit status raises.
run_cmd_unchecked(sec, cmd, is_safe, result) ==
    IF ~args.dry_run \/ is_safe
    THEN [trace |-> Debug("Running", sec, cmd) \o Exec(cmd, sec, result),
          raised |-> FALSE,
          ret |-> result]
    ELSE [trace |-> Info("Dry run: not running", sec, cmd),
          raised |-> FALSE,
          ret |-> None]

\* run_cmd: `result` is what the command does if it runs, its trimmed output
\* or Fail (check_output raises CalledProcessError on a non-zero exit).
run_cmd(sec, cmd, is_safe, result) ==
    IF ~args.dry_run \/ is_safe
    THEN [trace |-> Debug("Running", sec, cmd) \o Exec(cmd, sec, result),
          raised |-> result = Fail,
          ret |-> result]
    ELSE [trace |-> Info("Dry run: not running", sec, cmd),
          raised |-> FALSE,
          ret |-> None]

git_folder_is_repo(sec, kind) ==
    LET r == run_cmd(sec, "rev-parse", TRUE, IF kind = "repo" THEN "" ELSE Fail)
    IN  [trace |-> r.trace, raised |-> FALSE, ret |-> ~r.raised]

\* git_has_changes without its return: the caller always gets None.
git_has_changes_no_return(sec, ignore_untracked_files, wt, status_ok) ==
    LET cmd == IF ignore_untracked_files THEN "status --untracked-files=no" ELSE "status"
        r == run_cmd(sec, cmd, TRUE,
                     IF status_ok THEN StatusOutput(wt, ignore_untracked_files) ELSE Fail)
    IN  [trace |-> Observed("worktree", sec, wt) \o r.trace,
         raised |-> r.raised,
         ret |-> FALSE]

git_has_changes(sec, ignore_untracked_files, wt, status_ok) ==
    LET cmd == IF ignore_untracked_files THEN "status --untracked-files=no" ELSE "status"
        r == run_cmd(sec, cmd, TRUE,
                     IF status_ok THEN StatusOutput(wt, ignore_untracked_files) ELSE Fail)
    IN  [trace |-> Observed("worktree", sec, wt) \o r.trace,
         raised |-> r.raised,
         ret |-> ~r.raised /\ r.ret # NoOutput]

git_pull(sec, pull) ==
    LET r == run_cmd(sec, "pull --rebase", FALSE, pull)
    IN  [trace |-> Debug("Updating", sec, "") \o r.trace
                   \o (IF ~r.raised /\ r.ret # UpToDate
                       THEN Info("updated", sec, "") ELSE <<>>),
         raised |-> r.raised]

\* git_checkout that leaves the directories to git clone.
git_checkout_no_mkdir(sec, kind, clone) ==
    LET r == run_cmd(sec, "clone", FALSE, clone)
    IN  [trace |-> Info("Checking out", sec, "") \o r.trace, raised |-> r.raised]

\* path.mkdir(parents=True) raises FileExistsError when the path is a file.
git_checkout(sec, kind, clone) ==
    LET is_dir == kind \in {"dir", "repo"}
        made == IF ~args.dry_run /\ ~is_dir
                THEN [trace |-> Debug("Creating path", sec, "")
                                \o Exec("mkdir", sec, IF kind = "file" THEN Fail ELSE ""),
                      raised |-> kind = "file"]
                ELSE [trace |-> Info("Dry run: not creating path", sec, ""),
                      raised |-> FALSE]
        r == run_cmd(sec, "clone", FALSE, clone)
    IN  IF made.raised THEN made
        ELSE [trace |-> made.trace \o Info("Checking out", sec, "") \o r.trace,
              raised |-> r.raised]

\* The same branch without the test of --create.
section_missing_always_checkout(sec, env) == git_checkout(sec, env.kind, env.clone)

\* The branch of process_section for a path that does not exist or is not a
\* repository.
section_missing(sec, env) ==
    IF ~args.create
    THEN [trace |-> Warning("does not exist", sec, ""), raised |-> FALSE]
    ELSE git_checkout(sec, env.kind, env.clone)

\* The ignore_untracked_files value process_section hands to git_has_changes.
ignore_untracked_arg(section) == config.ignore_untracked_files

\* The branch of process_section for a repository.
section_present(sec, section, env) ==
    IF section.auto_update
    THEN LET c == git_has_changes(sec, ignore_untracked_arg(section), env.wt, env.status_ok)
             p == git_pull(sec, env.pull)
         IN  IF c.raised THEN [trace |-> c.trace, raised |-> TRUE]
             ELSE IF c.ret
                  THEN [trace |-> c.trace \o Warning("uncommited changes", sec, ""),
                        raised |-> FALSE]
                  ELSE [trace |-> c.trace \o p.trace, raised |-> p.raised]
    ELSE [trace |-> <<>>, raised |-> FALSE]

process_section(sec, section, env) ==
    LET exists == env.kind # "missing"
        probe == IF exists THEN git_folder_is_repo(sec, env.kind)
                 ELSE [trace |-> <<>>, raised |-> FALSE, ret |-> FALSE]
        rest == IF ~exists \/ ~probe.ret
                THEN section_missing(sec, env)
                ELSE section_present(sec, section, env)
    IN  [trace |-> Observed("path", sec, env.kind) \o probe.trace \o rest.trace,
         raised |-> rest.raised]

----------------------------------------------------------------------------
(* The process *)

NoMarker == [exists |-> FALSE, mtime |-> 0]

\* LAST_UPDATE_FILE.touch()
Touch == [exists |-> TRUE, mtime |-> now]

\* The test with --create read the wrong way round.
RateLimited_create_inverted(el, update_interval) == el < update_interval /\ args.create

\* The test, one second short.
RateLimited_off_by_one(el, update_interval) == el < update_interval - 1 /\ ~args.create

\* The test of load_default that ends the run.
RateLimited(el, update_interval) == el < update_interval /\ ~args.create

\* An uncaught exception ends the process with status 1.
Raise ==
    /\ pc' = "exited"
    /\ exitStatus' = 1

Proceed ==
    /\ marker' = Touch
    /\ pc' = "loop"
    /\ lastStart' = IF args.create THEN lastStart ELSE now
    /\ UNCHANGED exitStatus

LoadDefault ==
    /\ pc = "load_default"
    /\ LET update_interval == parse_interval_sec(UpdateIntervalString)
       IN  \/ /\ update_interval.tag = "ValueError"
              /\ Raise
              /\ UNCHANGED <<marker, elapsed, lastStart>>
           \/ /\ update_interval.tag # "ValueError"
              /\ ~marker.exists
              /\ Proceed
              /\ UNCHANGED elapsed
           \/ /\ update_interval.tag = "none"
              /\ marker.exists
              /\ elapsed' = now - marker.mtime
              /\ Raise
              /\ UNCHANGED <<marker, lastStart>>
           \/ /\ update_interval.tag = "int"
              /\ marker.exists
              /\ elapsed' = now - marker.mtime
              /\ IF RateLimited(now - marker.mtime, update_interval.val)
                 THEN /\ pc' = "exited"
                      /\ exitStatus' = 0
                      /\ UNCHANGED <<marker, lastStart>>
                 ELSE Proceed
    /\ UNCHANGED <<args, config, now, idx, trace>>

\* One iteration of the loop of __init__.
ProcessSection ==
    /\ pc = "loop"
    /\ idx < Len(config.sections)
    /\ \E env \in Envs :
          LET sec == idx + 1
              r == process_section(sec, config.sections[sec], env)
          IN  /\ idx' = sec
              /\ trace' = Debug("section", sec, "") \o r.trace
              /\ pc' = IF r.raised THEN "exited" ELSE "loop"
              /\ exitStatus' = IF r.raised THEN 1 ELSE exitStatus
    /\ UNCHANGED <<args, config, marker, now, elapsed, lastStart>>

\* The loop is over and the script ends.
Finish ==
    /\ pc = "loop"
    /\ idx = Len(config.sections)
    /\ pc' = "exited"
    /\ exitStatus' = 0
    /\ UNCHANGED <<args, config, marker, now, idx, elapsed, trace, lastStart>>

\* Time passes between two runs.
Tick ==
    /\ pc = "exited"
    /\ now < MaxTime
    /\ now' = now + 1
    /\ UNCHANGED <<args, config, marker, pc, idx, exitStatus, elapsed, trace, lastStart>>

\* The program is started again, after the previous run has ended.
NewRun ==
    /\ pc = "exited"
    /\ args' \in Args
    /\ pc' = "load_default"
    /\ idx' = 0
    /\ exitStatus' = -1
    /\ elapsed' = -1
    /\ trace' = <<>>
    /\ UNCHANGED <<config, marker, now, lastStart>>

InitWith(configs, start, mtimes) ==
    /\ args \in Args
    /\ config \in configs
    /\ now = start
    /\ marker \in {NoMarker} \cup {[exists |-> TRUE, mtime |-> t] : t \in mtimes}
    /\ pc = "load_default"
    /\ idx = 0
    /\ exitStatus = -1
    /\ elapsed = -1
    /\ trace = <<>>
    /\ lastStart = -1

\* One run, over every list of sections, with an update_interval that is
\* well formed, without suffix, or without a number.
RunIntervals == {<<"1", "s">>, <<"1">>, <<"s">>}

RunConfigs ==
    [update_interval : RunIntervals,
     ignore_untracked_files : BOOLEAN,
     sections : SectionLists(MaxSections)]

\* The marker is absent, as old as can be, or just touched.
Init == InitWith(RunConfigs, MaxTime, {0, MaxTime})

Next == LoadDefault \/ ProcessSection \/ Finish

Spec == Init /\ [][Next]_vars

\* A sequence of runs of one configuration, over every update_interval string.
SeriesSections ==
    {<< [auto_update |-> TRUE, ignore_untracked_files |-> "unset"] >>}

SeriesConfigs ==
    [update_interval : Strings(MaxLen) \cup {Unset},
     ignore_untracked_files : {FALSE},
     sections : SeriesSections]

InitSeries == InitWith(SeriesConfigs, 0, {0})

NextSeries == Next \/ Tick \/ NewRun

SpecSeries == InitSeries /\ [][NextSeries]_vars

----------------------------------------------------------------------------
(* Reading the trace of the section processed last *)

Section == config.sections[idx]

Has(e) == \E i \in 1..Len(trace) : trace[i] = e

SawPath(kind) == idx >= 1 /\ Has(Ev("env", "path", idx, kind))

SawWorkTree(wt) == idx >= 1 /\ Has(Ev("env", "worktree", idx, wt))

\* The positions of the trace where the command ran.
Runs(cmd) == {i \in 1..Len(trace) : trace[i].t = "exec" /\ trace[i].what = cmd}

Failed(cmd) == \E i \in Runs(cmd) : trace[i].res = Fail

StatusCmds == {"status", "status --untracked-files=no"}

Mutating == {"mkdir", "clone", "pull --rebase"}

RanStatus == \E cmd \in StatusCmds : Runs(cmd) # {}

RanMutating == \E cmd \in Mutating : Runs(cmd) # {}

Skipped(cmd) == Has(Ev("info", "Dry run: not running", idx, cmd))

\* git_pull was called: the pull ran, or dry-run suppressed it.
PullIssued == Runs("pull --rebase") # {} \/ Skipped("pull --rebase")

\* The status check ran and found nothing to report.
FoundClean == \E cmd \in StatusCmds : \E i \in Runs(cmd) : trace[i].res = NoOutput

Warned(what) == Has(Ev("warning", what, idx, ""))

Interval == parse_interval_sec(UpdateIntervalString)

\* The interval check of this run was made and was not passed.
WithinInterval ==
    /\ elapsed # -1
    /\ Interval.tag = "int"
    /\ elapsed < Interval.val
    /\ ~args.create

----------------------------------------------------------------------------
(* The claims *)

\* C1: a run that finds the marker touched less than update_interval ago,
\* without --create, processes no section, runs no command and exits 0.
C1_RateLimitedRunDoesNothing ==
    (pc # "load_default" /\ WithinInterval)
        => pc = "exited" /\ exitStatus = 0 /\ idx = 0 /\ trace = <<>>

C1_Witness ==
    /\ pc = "exited"
    /\ WithinInterval
    /\ elapsed >= 1
    /\ Len(config.sections) >= 1

\* C2: in a repository with auto_update whose working tree has modified
\* tracked files, git_pull is not called, whatever the flags and whatever
\* ignore_untracked_files is.
C2_NoPullOverTrackedChanges ==
    (SawPath("repo") /\ Section.auto_update
        /\ (SawWorkTree("tracked") \/ SawWorkTree("both")))
        => ~PullIssued

C2_Witness ==
    /\ SawPath("repo")
    /\ Section.auto_update
    /\ SawWorkTree("tracked")
    /\ config.ignore_untracked_files
    /\ Warned("uncommited changes")

\* The value of ignore_untracked_files for a section: its own, or that of
\* the defaults when the section does not set the key.
EffectiveIgnore(section) ==
    IF section.ignore_untracked_files = "unset"
    THEN config.ignore_untracked_files
    ELSE section.ignore_untracked_files = "true"

\* C3: in a repository with auto_update and only untracked files, a pull is
\* issued exactly when ignore_untracked_files is true for the section, the
\* section's own value taking precedence over the defaults.
C3_SectionValueDecidesUntracked ==
    (SawPath("repo") /\ Section.auto_update /\ SawWorkTree("untracked")
        /\ ~(\E cmd \in StatusCmds : Failed(cmd)))
        => (PullIssued <=> EffectiveIgnore(Section))

C5_MissingPathIsSkipped ==
    (SawPath("missing") /\ ~args.create)
        => /\ ~RanMutating
           /\ Warned("does not exist")
           /\ exitStatus # 1
           /\ pc = "loop" \/ (pc = "exited" /\ idx = Len(config.sections) /\ exitStatus = 0)

C5_Witness ==
    /\ SawPath("missing")
    /\ ~args.create
    /\ Warned("does not exist")
    /\ pc = "loop"
    /\ idx < Len(config.sections)

\* What C6 calls malformed: no recognized unit suffix at the end, or no
\* decimal number before it.
Malformed(string) ==
    \/ ~(\E k \in 1..Len(Units) : EndsWith(string, Units[k].suffix))
    \/ ~FloatAccepts(SubSeq(string, 1, Len(string) - 1))

\* C6: with a malformed update_interval the run fails before any section is
\* processed, whether the marker exists or not and whatever --create is.
C6_MalformedIntervalIsFatal ==
    (Malformed(UpdateIntervalString) /\ pc # "load_default")
        => pc = "exited" /\ exitStatus = 1 /\ idx = 0

\* C7: a clone or pull that exits non-zero ends the run with an error, after
\* running once, with the sections that follow left alone; a rev-parse that
\* exits non-zero does not: the section is handled as not being a repository.
C7_CloneAndPullFailuresAreFatal ==
    /\ \A cmd \in {"clone", "pull --rebase"} :
          Failed(cmd) => /\ pc = "exited"
                         /\ exitStatus = 1
                         /\ Cardinality(Runs(cmd)) = 1
                         /\ Runs(cmd) = {Len(trace)}
    /\ Failed("rev-parse")
          => /\ ~RanStatus
             /\ ~PullIssued
             /\ ~args.create => (Warned("does not exist") /\ exitStatus # 1)
             /\ args.create => \/ Runs("clone") # {}
                               \/ Skipped("clone")
                               \/ Failed("mkdir")
             /\ exitStatus = 1 => (Failed("clone") \/ Failed("mkdir"))

C7_Witness ==
    /\ Failed("clone")
    /\ Failed("rev-parse")
    /\ pc = "exited"
    /\ idx < Len(config.sections)

\* C8: for a path that does not exist, with --create and without --dry-run,
\* the directories are made, clone runs exactly once for that section, and
\* neither status nor pull is run or issued, auto_update or not.
C8_MissingPathIsCloned ==
    (SawPath("missing") /\ args.create /\ ~args.dry_run)
        => /\ Has(Ev("exec", "mkdir", idx, ""))
           /\ Cardinality(Runs("clone")) = 1
           /\ \A i \in Runs("clone") : trace[i].sec = idx
           /\ Runs("rev-parse") = {}
           /\ ~RanStatus
           /\ ~PullIssued

C8_Witness ==
    /\ SawPath("missing")
    /\ args.create
    /\ ~args.dry_run
    /\ Section.auto_update
    /\ Has(Ev("exec", "clone", idx, ""))

\* C9: the marker changes only in a run that passes the interval check, to
\* the time that run starts, so a rate-limited run leaves it alone; and a run
\* without --create passes the check only update_interval or more after the
\* start of the last such run that passed it.
C9_MarkerLifecycle ==
    [][ /\ marker' # marker
           => pc = "load_default" /\ pc' = "loop" /\ marker' = [exists |-> TRUE, mtime |-> now]
        /\ (pc = "load_default" /\ pc' = "loop" /\ ~args.create /\ lastStart # -1)
           => Interval.tag = "int" /\ now - lastStart >= Interval.val
      ]_vars

\* A run without --create passes the check of a marker that an earlier run
\* has refreshed.
C9_Witness ==
    /\ pc = "loop"
    /\ ~args.create
    /\ elapsed >= 1
    /\ elapsed < now
    /\ lastStart = now
    /\ marker.mtime = now

\* C10: "updated" is logged only for a pull that ran and whose output was not
\* "Already up to date.".
C10_UpdatedOnlyAfterPull ==
    (idx >= 1 /\ Has(Ev("info", "updated", idx, "")))
        => \E i \in Runs("pull --rebase") : trace[i].res \notin {Fail, UpToDate}

====
